---- MODULE Spec2Model ----
(***************************************************************************)
(* Model of the semantic indexing core of server.js: the process-wide      *)
(* vectorStore, the index file, and the /api/index-files handler with its  *)
(* per-directory walkers, per-chunk embedding calls, progress stream,      *)
(* merge and persist, the /api/semantic-search handler, the                *)
(* /api/index-status handler, and handleIndexFiles of the browser page,    *)
(* which reads the response of an index run.  Every action is one          *)
(* synchronous segment of the handler code, from one suspension point (an  *)
(* event or an await) to the next.                                         *)
(***************************************************************************)
EXTENDS Integers, Sequences, FiniteSets, TLC

\* ------------------------------------------------------------------------
\* Program constants
\* ------------------------------------------------------------------------
DefaultChunkSize == 1000
DefaultOverlap == 200
MinContentLength == 50
MaxChunksPerFile == 5
\* slice(0, 12) of the search results
MaxHits == 12
\* the relevance floor  score > 0.25,  0.25 = 1 / FloorDenominator
FloorDenominator == 4
\* r.preview.substring(0, 150)
SummaryLength == 150

\* ------------------------------------------------------------------------
\* Bounds of the model
\* ------------------------------------------------------------------------
\* Number of /api/index-files requests the server receives.
MaxRuns == 2
\* Longest text and largest chunk size of the calls of chunkText that are
\* looked at alone.
MaxTextLen == 10
MaxChunkSize == 4

Runs == 1..MaxRuns

Min(a, b) == IF a < b THEN a ELSE b

\* ------------------------------------------------------------------------
\* The file system the walkers see (external collaborator).  A file is its
\* path, the two facts the skip guard reads from its name and path, whether
\* textract can read it, and the length of its text.
\* ------------------------------------------------------------------------
FileU == [name |-> "u.bin", path |-> "A/u.bin", dot |-> FALSE, nodeModules |-> FALSE,
          readable |-> FALSE, len |-> 0]
FileA == [name |-> "a.txt", path |-> "A/a.txt", dot |-> FALSE, nodeModules |-> FALSE,
          readable |-> TRUE, len |-> 2000]
FileB == [name |-> "b.txt", path |-> "B/b.txt", dot |-> FALSE, nodeModules |-> FALSE,
          readable |-> TRUE, len |-> 1000]
\* A hidden file, a file under node_modules, a file whose text has exactly
\* the 50 characters the guard still refuses, and a file whose text is cut
\* into seven chunks.
FileHidden == [name |-> ".env", path |-> "H/.env", dot |-> TRUE, nodeModules |-> FALSE,
               readable |-> TRUE, len |-> 1000]
FileDep == [name |-> "x.js", path |-> "H/node_modules/x.js", dot |-> FALSE,
            nodeModules |-> TRUE, readable |-> TRUE, len |-> 1000]
FileShort == [name |-> "s.txt", path |-> "H/s.txt", dot |-> FALSE, nodeModules |-> FALSE,
              readable |-> TRUE, len |-> 50]
FileLong == [name |-> "l.txt", path |-> "H/l.txt", dot |-> FALSE, nodeModules |-> FALSE,
             readable |-> TRUE, len |-> 5000]

DirFiles(d) ==
  CASE d = "A" -> <<FileU, FileA>>
    [] d = "B" -> <<FileB>>
    [] d = "H" -> <<FileHidden, FileDep, FileShort, FileLong>>
    [] OTHER -> <<>>

\* The request bodies sent when several requests are made: no directory, or
\* one directory.
DirLists == {<<>>, <<"A">>, <<"B">>}

\* The request bodies sent when one request is looked at alone: one
\* directory, and two directories that both hold files, in either order.
WalkLists == {<<"A">>, <<"A", "B">>, <<"B", "A">>}

\* The request bodies sent when the guards of the 'file' handler are looked
\* at: the directory with the hidden, excluded, short and long files, and a
\* directory listed twice.
ScanLists == {<<"H">>, <<"A", "A">>}

\* ------------------------------------------------------------------------
\* The embedding deployment (external collaborator).  Vectors are given with
\* integer components; against the query vector EOne their cosine is
\* 1 (EOne), 0.894 (EHigh), 0.447 (EMid), exactly 0.25 (EFloor) and 0.243
\* (EBelow).  EZero has norm zero and EShort is a vector of another
\* deployment, with fewer dimensions.
\* ------------------------------------------------------------------------
EOne == <<1, 0, 0, 0, 0>>
EHigh == <<2, 1, 0, 0, 0>>
EMid == <<1, 2, 0, 0, 0>>
EFloor == <<1, 3, 2, 1, 1>>
EBelow == <<1, 4, 0, 0, 0>>
EZero == <<0, 0, 0, 0, 0>>
EShort == <<2, 1, 0>>
QShort == <<1, 0, 0>>

\* What the deployment returns for chunk k of the file at path.
EmbeddingOf(path, k) == IF k = 1 THEN EHigh ELSE EMid

\* What it may return for a query.
QueryEmbeddings == {EOne, EZero, QShort}

\* req.body.query of the search requests: the empty string, a string of two
\* blanks, and a word.
Queries == {<<>>, <<" ", " ">>, <<"c", "a", "t">>}

\* ------------------------------------------------------------------------
\* Index files found at process start, written by an earlier process.
\* ------------------------------------------------------------------------
StoredRecord(n, name, path, embedding, start, end) ==
  [id |-> <<0, n>>, name |-> name, path |-> path, embedding |-> embedding,
   preview |-> [start |-> start, end |-> end]]

\* two chunks of a.txt and two of b.txt; the best of a.txt scores 0.894, the
\* best of b.txt 0.447
StoreTwoFiles ==
  <<StoredRecord(1, "b.txt", "B/b.txt", EMid, 0, 1000),
    StoredRecord(2, "a.txt", "A/a.txt", EBelow, 0, 1000),
    StoredRecord(3, "b.txt", "B/b.txt", EFloor, 800, 1000),
    StoredRecord(4, "a.txt", "A/a.txt", EHigh, 800, 1800)>>

\* three chunks of one file, all above the floor
StoreOneFile ==
  <<StoredRecord(1, "a.txt", "A/a.txt", EMid, 0, 1000),
    StoredRecord(2, "a.txt", "A/a.txt", EOne, 800, 1800),
    StoredRecord(3, "a.txt", "A/a.txt", EHigh, 1600, 2000)>>

\* a record with a zero-norm embedding between two chunks of one file
StoreZeroNorm ==
  <<StoredRecord(1, "a.txt", "A/a.txt", EMid, 0, 1000),
    StoredRecord(2, "z.txt", "Z/z.txt", EZero, 0, 100),
    StoredRecord(3, "a.txt", "A/a.txt", EHigh, 800, 1800)>>

\* records embedded by two deployments of different dimensions
StoreTwoDeployments ==
  <<StoredRecord(1, "a.txt", "A/a.txt", EShort, 0, 1000),
    StoredRecord(2, "b.txt", "B/b.txt", EHigh, 0, 1000)>>

\* a file whose only chunk scores exactly 0.25, and another file
StoreAtFloor ==
  <<StoredRecord(1, "c.txt", "C/c.txt", EFloor, 0, 1000),
    StoredRecord(2, "a.txt", "A/a.txt", EHigh, 0, 1000)>>

\* more files than a result list holds, the first of them with two chunks
ManyPaths == <<"M/01", "M/02", "M/03", "M/04", "M/05", "M/06", "M/07",
               "M/08", "M/09", "M/10", "M/11", "M/12", "M/13">>

StoreManyFiles ==
  [k \in 1..(Len(ManyPaths) + 1) |->
     StoredRecord(k, "m.txt", ManyPaths[IF k <= 2 THEN 1 ELSE k - 1],
                  IF k % 2 = 1 THEN EHigh ELSE EMid, 0, 100)]

SearchStores == {<<>>, StoreTwoFiles, StoreOneFile, StoreZeroNorm,
                 StoreTwoDeployments, StoreAtFloor, StoreManyFiles}

\* The stores found at start when an index run is looked at together with
\* searches: none, or chunks of b.txt and a.txt interleaved.
ServeStores ==
  {<<>>,
   <<StoredRecord(1, "b.txt", "B/b.txt", EHigh, 0, 1000),
     StoredRecord(2, "a.txt", "A/a.txt", EHigh, 0, 1000),
     StoredRecord(3, "b.txt", "B/b.txt", EMid, 800, 1000),
     StoredRecord(4, "a.txt", "A/a.txt", EMid, 800, 1800)>>}

\* ------------------------------------------------------------------------
\* Pure helpers of server.js
\* ------------------------------------------------------------------------
\* extractText: resolves "" on a textract error, the text otherwise.  A text
\* is modelled by its length.
extractText(f) == IF f.readable THEN f.len ELSE 0

\* chunkText on a text of length len: the windows [start, end) pushed by
\* the loop  for (i = 0; i < text.length; i += chunkSize - overlap).
\* chunkFromNoOverlap is chunkFrom with the fault of stepping by chunkSize.
RECURSIVE chunkFromNoOverlap(_, _, _, _)
chunkFromNoOverlap(i, len, chunkSize, overlap) ==
  IF i < len
  THEN <<[start |-> i, end |-> Min(i + chunkSize, len)]>>
       \o chunkFromNoOverlap(i + chunkSize, len, chunkSize, overlap)
  ELSE <<>>

RECURSIVE chunkFrom(_, _, _, _)
chunkFrom(i, len, chunkSize, overlap) ==
  IF i < len
  THEN <<[start |-> i, end |-> Min(i + chunkSize, len)]>>
       \o chunkFrom(i + (chunkSize - overlap), len, chunkSize, overlap)
  ELSE <<>>

chunkText(len) == chunkFrom(0, len, DefaultChunkSize, DefaultOverlap)

\* text.substring(from, to) on a text given as its sequence of characters
substring(text, from, to) == SubSeq(text, from + 1, Min(to, Len(text)))

\* chunkText on a text given as its sequence of characters: the strings
\* pushed by the loop.
chunkTextOf(text, chunkSize, overlap) ==
  LET windows == chunkFrom(0, Len(text), chunkSize, overlap)
  IN  [k \in 1..Len(windows) |->
         substring(text, windows[k].start, windows[k].start + chunkSize)]

\* The calls of chunkText looked at alone: a text of n different characters,
\* and 0 <= overlap < chunkSize.
TextOf(n) == [i \in 1..n |-> i]

ChunkCalls ==
  {args \in [called : {TRUE},
             text : {TextOf(n) : n \in 0..MaxTextLen},
             chunkSize : 1..MaxChunkSize,
             overlap : 0..(MaxChunkSize - 1)] :
     args.overlap < args.chunkSize}

\* chunks.slice(0, 5)
\* limitedChunksSix is limitedChunks with the fault of keeping six chunks.
limitedChunksSix(len) ==
  LET chunks == chunkText(len)
  IN  SubSeq(chunks, 1, Min(Len(chunks), MaxChunksPerFile + 1))

limitedChunks(len) ==
  LET chunks == chunkText(len)
  IN  SubSeq(chunks, 1, Min(Len(chunks), MaxChunksPerFile))

\* stats.name.startsWith('.') || filePath.includes('node_modules')
\* SkippedDotOnly is Skipped with the fault of not looking at the path.
SkippedDotOnly(f) == f.dot

Skipped(f) == f.dot \/ f.nodeModules

\* content && content.length > 50
\* IndexableFromMinimum is Indexable with the fault of accepting a text of
\* exactly 50 characters.
IndexableFromMinimum(content) == content # 0 /\ content >= MinContentLength

Indexable(content) == content # 0 /\ content > MinContentLength

\* cosineSimilarity(vecA, vecB): the loop runs over the indices of vecA.  A
\* score is kept as the exact integers it is the quotient of,
\* dot / (sqrt(normA) * sqrt(normB)); it is NaN when an element of vecB is
\* undefined (vecB shorter than vecA) and when the quotient is 0 / 0.
RECURSIVE SumProducts(_, _, _)
SumProducts(a, b, n) ==
  IF n = 0 THEN 0 ELSE SumProducts(a, b, n - 1) + a[n] * b[n]

NaNScore == [nan |-> TRUE, dot |-> 0, normA |-> 0, normB |-> 0]

cosineSimilarity(vecA, vecB) ==
  LET n == Len(vecA)
  IN  IF Len(vecB) < n
      THEN NaNScore
      ELSE LET dot == SumProducts(vecA, vecB, n)
               normA == SumProducts(vecA, vecA, n)
               normB == SumProducts(vecB, vecB, n)
           IN  IF normA * normB = 0
               THEN NaNScore
               ELSE [nan |-> FALSE, dot |-> dot, normA |-> normA, normB |-> normB]

\* Comparison of two scores, exact: x -> sign(x) * x * x is increasing.
SignedSquare(d) == IF d < 0 THEN 0 - d * d ELSE d * d

ScoreGreater(s, t) ==
  /\ ~ s.nan
  /\ ~ t.nan
  /\ SignedSquare(s.dot) * (t.normA * t.normB)
       > SignedSquare(t.dot) * (s.normA * s.normB)

\* doc.score > 0.25 ; every comparison with NaN is false.  AboveOrAtFloor is
\* AboveFloor with the fault of keeping a score of exactly 0.25.
AboveOrAtFloor(s) ==
  /\ ~ s.nan
  /\ s.dot > 0
  /\ FloorDenominator * FloorDenominator * s.dot * s.dot >= s.normA * s.normB

AboveFloor(s) ==
  /\ ~ s.nan
  /\ s.dot > 0
  /\ FloorDenominator * FloorDenominator * s.dot * s.dot > s.normA * s.normB

\* { ...doc, score: cosineSimilarity(queryEmbedding, doc.embedding) }
WithScore(doc, queryEmbedding) ==
  [id |-> doc.id, name |-> doc.name, path |-> doc.path,
   embedding |-> doc.embedding, preview |-> doc.preview,
   score |-> cosineSimilarity(queryEmbedding, doc.embedding)]

Scored(store, queryEmbedding) ==
  [k \in 1..Len(store) |-> WithScore(store[k], queryEmbedding)]

\* .sort((a, b) => b.score - a.score): Array.prototype.sort is stable, so
\* with a consistent comparator the result is the one list below.
SortRank(docs, k) ==
  1 + Cardinality({j \in 1..Len(docs) : ScoreGreater(docs[j].score, docs[k].score)})
    + Cardinality({j \in 1..(k - 1) :
                     /\ ~ ScoreGreater(docs[j].score, docs[k].score)
                     /\ ~ ScoreGreater(docs[k].score, docs[j].score)})

StableSorted(docs) ==
  [pos \in 1..Len(docs) |->
     docs[CHOOSE k \in 1..Len(docs) : SortRank(docs, k) = pos]]

\* A score that is NaN makes the comparator return NaN, which is not a
\* consistent comparator: the order of the sorted list is then
\* implementation-defined.
Inconsistent(docs) == \E k \in 1..Len(docs) : docs[k].score.nan

Reordered(docs) ==
  {[pos \in 1..Len(docs) |-> docs[p[pos]]] : p \in Permutations(1..Len(docs))}

\* `${(r.score * 100).toFixed(0)}% Match`: the percentage, rounded.
PercentMatch(s) ==
  CHOOSE p \in 0..100 :
    /\ p = 0 \/ (2 * p - 1) * (2 * p - 1) * (s.normA * s.normB)
                  <= 40000 * s.dot * s.dot
    /\ 40000 * s.dot * s.dot < (2 * p + 1) * (2 * p + 1) * (s.normA * s.normB)

\* r.preview.substring(0, 150) + "..."
Summary(preview) ==
  [start |-> preview.start,
   end |-> Min(preview.start + SummaryLength, preview.end),
   ellipsis |-> TRUE]

\* The value set in uniqueFiles for a result r.
Hit(r) ==
  [name |-> r.name, path |-> r.path, keywords |-> PercentMatch(r.score),
   summary |-> Summary(r.preview)]

\* rawResults.forEach(r => { if (!uniqueFiles.has(r.path)) uniqueFiles.set(..) })
\* followed by Array.from(uniqueFiles.values()): insertion order.
RECURSIVE uniqueFrom(_, _)
uniqueFrom(raw, seen) ==
  IF raw = <<>>
  THEN <<>>
  ELSE IF Head(raw).path \in seen
       THEN uniqueFrom(Tail(raw), seen)
       ELSE <<Hit(Head(raw))>> \o uniqueFrom(Tail(raw), seen \cup {Head(raw).path})

uniqueFiles(raw) == uniqueFrom(raw, {})

\* .slice(0, 12)
FirstHits(hits) == SubSeq(hits, 1, Min(Len(hits), MaxHits))

\* !query : the empty string is falsy, every other string is truthy.  A
\* query string is modelled as its sequence of characters.
Falsy(q) == q = <<>>

\* ------------------------------------------------------------------------
\* State
\* ------------------------------------------------------------------------
VARIABLES
  vectorStore,      \* let vectorStore: the process-wide list of records
  indexFile,        \* INDEX_FILE: absent, partly written, or a whole list
  nRuns,            \* number of /api/index-files requests received
  baseDirectories,  \* per run: req.body.baseDirectories
  newVectors,       \* per run: let newVectors
  filesProcessed,   \* per run: let filesProcessed
  totalFiles,       \* per run: let totalFiles
  walker,           \* per run, per directory: position of its walker
  endPc,            \* per run: position of the last directory's 'end' handler
  writeData,        \* per run: JSON.stringify(vectorStore) handed to writeFile
  stream,           \* per run: records received on the response
  resEnded,         \* per run: res.end() was called
  lateWrites,       \* per run: res.write calls made after res.end()
  embedFailed,      \* per run: <<path, chunk index>> of failed embedding calls
  preMergeStore,    \* per run: vectorStore as read by the merge expression
  searchPc,         \* position of the /api/semantic-search request looked at
  query,            \* its req.body.query
  queryEmbedding,   \* its const queryEmbedding
  rawResults,       \* its const rawResults
  searchEmbedCalls, \* embedding calls it has issued
  searchRes,        \* its response
  statusRes,        \* the last response of /api/index-status
  serverPc,         \* position of the startup: starting, listening, crashed
  chunkArgs,        \* the arguments of a call of chunkText looked at alone
  chunks,           \* what that call returned
  clientPc,         \* position of handleIndexFiles in the browser
  requestBody,      \* baseDirectories of the body it sent
  isIndexing,       \* React state isIndexing
  hasIndex,         \* React state hasIndex
  progress,         \* React state progress
  received,         \* characters of the response body it has read
  notices           \* the calls of addError it has made

searchVars == <<searchPc, query, queryEmbedding, rawResults, searchEmbedCalls,
                searchRes, statusRes>>

clientVars == <<clientPc, requestBody, isIndexing, hasIndex, progress, received,
                notices>>

otherVars == <<serverPc, chunkArgs, chunks, clientVars>>

vars == <<vectorStore, indexFile, nRuns, baseDirectories, newVectors,
          filesProcessed, totalFiles, walker, endPc, writeData, stream,
          resEnded, lateWrites, embedFailed, preMergeStore, searchVars,
          otherVars>>

\* The three conditions of INDEX_FILE: it does not exist, it was opened for
\* writing and not yet written whole, or it holds a whole serialized list.
FileAbsent == [kind |-> "absent", records |-> <<>>]
FilePartial == [kind |-> "partial", records |-> <<>>]
FileWith(records) == [kind |-> "whole", records |-> records]

Started(r) == r <= nRuns

\* The file a walker is at.
CurFile(r, i) == DirFiles(baseDirectories[r][i])[walker[r][i].next]

NoResponse == [status |-> 0, results |-> <<>>]
NoStatus == [answered |-> FALSE, hasIndex |-> FALSE, count |-> 0]

NoCall == [called |-> FALSE, text |-> <<>>, chunkSize |-> 0, overlap |-> 0]

\* No call of chunkText is looked at alone.
InitChunk ==
  /\ chunkArgs = NoCall
  /\ chunks = <<>>

\* The page is loaded and the index button has not been pressed.
\* useState(false), useState(false), useState({ current: 0, total: 0 })
InitClient ==
  /\ clientPc = "idle"
  /\ requestBody = <<>>
  /\ isIndexing = FALSE
  /\ hasIndex = FALSE
  /\ progress = [current |-> 0, total |-> 0]
  /\ received = 0
  /\ notices = <<>>

\* No request has been received yet.
InitRequests ==
  /\ searchPc = "idle"
  /\ query = <<>>
  /\ queryEmbedding = <<>>
  /\ rawResults = <<>>
  /\ searchEmbedCalls = 0
  /\ searchRes = NoResponse
  /\ statusRes = NoStatus

\* loadMemory(): the store is the parsed content of INDEX_FILE when the
\* file exists, and stays [] when it does not.
loadMemory(file) == IF file.kind = "absent" THEN <<>> ELSE file.records

\* The index file a process that persisted store left behind.
FileOf(store) == IF store = <<>> THEN FileAbsent ELSE FileWith(store)

InitRuns ==
  /\ nRuns = 0
  /\ baseDirectories = [r \in Runs |-> <<>>]
  /\ newVectors = [r \in Runs |-> <<>>]
  /\ filesProcessed = [r \in Runs |-> 0]
  /\ totalFiles = [r \in Runs |-> 0]
  /\ walker = [r \in Runs |-> <<>>]
  /\ endPc = [r \in Runs |-> "none"]
  /\ writeData = [r \in Runs |-> <<>>]
  /\ stream = [r \in Runs |-> <<>>]
  /\ resEnded = [r \in Runs |-> FALSE]
  /\ lateWrites = [r \in Runs |-> 0]
  /\ embedFailed = [r \in Runs |-> {}]
  /\ preMergeStore = [r \in Runs |-> <<>>]

\* The process has started and found no index file.
Init ==
  /\ vectorStore = <<>>
  /\ indexFile = FileAbsent
  /\ serverPc = "listening"
  /\ InitChunk
  /\ InitClient
  /\ InitRequests
  /\ InitRuns

\* The process has started and loaded the index file it found.
InitSearch ==
  /\ \E store \in SearchStores :
       /\ indexFile = FileOf(store)
       /\ vectorStore = loadMemory(FileOf(store))
  /\ serverPc = "listening"
  /\ InitChunk
  /\ InitClient
  /\ InitRequests
  /\ InitRuns

InitServe ==
  /\ \E store \in ServeStores :
       /\ indexFile = FileOf(store)
       /\ vectorStore = loadMemory(FileOf(store))
  /\ serverPc = "listening"
  /\ InitChunk
  /\ InitClient
  /\ InitRequests
  /\ InitRuns

\* ------------------------------------------------------------------------
\* The response object
\* ------------------------------------------------------------------------
\* res.write(record): delivered while the response is open; after res.end()
\* the call fails (write after end) and nothing reaches the client.
ResWrite(r, rec) ==
  IF resEnded[r]
  THEN /\ lateWrites' = [lateWrites EXCEPT ![r] = @ + 1]
       /\ UNCHANGED stream
  ELSE /\ stream' = [stream EXCEPT ![r] = Append(@, rec)]
       /\ UNCHANGED lateWrites

\* ------------------------------------------------------------------------
\* POST /api/index-files
\* ------------------------------------------------------------------------
\* The request arrives: the locals are initialised and one walker per base
\* directory is created before the handler returns.
IndexFiles(r, dirs) ==
  /\ serverPc = "listening"
  /\ r = nRuns + 1
  /\ r <= MaxRuns
  /\ nRuns' = r
  /\ baseDirectories' = [baseDirectories EXCEPT ![r] = dirs]
  /\ newVectors' = [newVectors EXCEPT ![r] = <<>>]
  /\ filesProcessed' = [filesProcessed EXCEPT ![r] = 0]
  /\ totalFiles' = [totalFiles EXCEPT ![r] = 0]
  /\ walker' = [walker EXCEPT ![r] =
                  [i \in 1..Len(dirs) |-> [next |-> 1, pc |-> "walk", chunk |-> 0]]]
  /\ UNCHANGED <<vectorStore, indexFile, endPc, writeData, stream, resEnded,
                 lateWrites, embedFailed, preMergeStore, searchVars, otherVars>>

\* walker.on('file'), up to the skip return or to await extractText.
WalkerFile(r, i) ==
  /\ Started(r)
  /\ i \in 1..Len(baseDirectories[r])
  /\ walker[r][i].pc = "walk"
  /\ walker[r][i].next <= Len(DirFiles(baseDirectories[r][i]))
  /\ IF Skipped(CurFile(r, i))
     THEN /\ walker' = [walker EXCEPT ![r][i].next = @ + 1]
          /\ UNCHANGED totalFiles
     ELSE /\ totalFiles' = [totalFiles EXCEPT ![r] = @ + 1]
          /\ walker' = [walker EXCEPT ![r][i].pc = "extract"]
  /\ UNCHANGED <<vectorStore, indexFile, nRuns, baseDirectories, newVectors,
                 filesProcessed, endPc, writeData, stream, resEnded,
                 lateWrites, embedFailed, preMergeStore,
                 searchVars, otherVars>>

\* The record written after each file.  ProgressPerWalker is ProgressRecord
\* with the fault of counting per walker instead of per request.
ProgressPerWalker(r, i) ==
  [status |-> "indexing", filesProcessed |-> walker[r][i].next,
   totalFiles |-> totalFiles[r]]

ProgressRecord(r, i) ==
  [status |-> "indexing", filesProcessed |-> filesProcessed[r] + 1,
   totalFiles |-> totalFiles[r]]

\* filesProcessed++; res.write(progress); next()
FinishFile(r, i) ==
  /\ filesProcessed' = [filesProcessed EXCEPT ![r] = @ + 1]
  /\ ResWrite(r, ProgressRecord(r, i))
  /\ walker' = [walker EXCEPT ![r][i] =
                  [next |-> @.next + 1, pc |-> "walk", chunk |-> 0]]

\* await extractText returns: either the first embedding call is issued or
\* the file is finished without one.  ExtractAborts is ExtractReturn with
\* the fault that a failed extraction leaves the handler without next().
ExtractAborts(r, i) ==
  /\ Started(r)
  /\ i \in 1..Len(baseDirectories[r])
  /\ walker[r][i].pc = "extract"
  /\ LET content == extractText(CurFile(r, i))
     IN  IF Indexable(content) /\ Len(limitedChunks(content)) > 0
         THEN /\ walker' = [walker EXCEPT ![r][i].pc = "embed",
                                          ![r][i].chunk = 1]
              /\ UNCHANGED <<filesProcessed, stream, lateWrites>>
         ELSE IF content = 0
         THEN /\ walker' = [walker EXCEPT ![r][i].pc = "aborted"]
              /\ UNCHANGED <<filesProcessed, stream, lateWrites>>
         ELSE FinishFile(r, i)
  /\ UNCHANGED <<vectorStore, indexFile, nRuns, baseDirectories, newVectors,
                 totalFiles, endPc, writeData, resEnded, embedFailed,
                 preMergeStore,
                 searchVars, otherVars>>

ExtractReturn(r, i) ==
  /\ Started(r)
  /\ i \in 1..Len(baseDirectories[r])
  /\ walker[r][i].pc = "extract"
  /\ LET content == extractText(CurFile(r, i))
     IN  IF Indexable(content) /\ Len(limitedChunks(content)) > 0
         THEN /\ walker' = [walker EXCEPT ![r][i].pc = "embed",
                                          ![r][i].chunk = 1]
              /\ UNCHANGED <<filesProcessed, stream, lateWrites>>
         ELSE FinishFile(r, i)
  /\ UNCHANGED <<vectorStore, indexFile, nRuns, baseDirectories, newVectors,
                 totalFiles, endPc, writeData, resEnded, embedFailed,
                 preMergeStore,
                 searchVars, otherVars>>

\* The record pushed for chunk k of file f.
NewRecord(r, f, k) ==
  [id |-> <<r, Len(newVectors[r]) + 1>>,
   name |-> f.name,
   path |-> f.path,
   embedding |-> EmbeddingOf(f.path, k),
   preview |-> limitedChunks(extractText(f))[k]]

\* await client.embeddings.create returns (ok) or throws (~ok).  A throw
\* leaves the for loop through the catch of the whole try block.
\* EmbedReturnShared is EmbedReturn with the fault of pushing the record into
\* vectorStore as well, at once.
EmbedReturnShared(r, i, ok) ==
  /\ Started(r)
  /\ i \in 1..Len(baseDirectories[r])
  /\ walker[r][i].pc = "embed"
  /\ LET f == CurFile(r, i)
         k == walker[r][i].chunk
         n == Len(limitedChunks(extractText(f)))
     IN  IF ok
         THEN /\ newVectors' = [newVectors EXCEPT ![r] = Append(@, NewRecord(r, f, k))]
              /\ vectorStore' = Append(vectorStore, NewRecord(r, f, k))
              /\ UNCHANGED embedFailed
              /\ IF k < n
                 THEN /\ walker' = [walker EXCEPT ![r][i].chunk = k + 1]
                      /\ UNCHANGED <<filesProcessed, stream, lateWrites>>
                 ELSE FinishFile(r, i)
         ELSE /\ embedFailed' = [embedFailed EXCEPT ![r] = @ \cup {<<f.path, k>>}]
              /\ UNCHANGED <<newVectors, vectorStore>>
              /\ FinishFile(r, i)
  /\ UNCHANGED <<indexFile, nRuns, baseDirectories, totalFiles,
                 endPc, writeData, resEnded, preMergeStore,
                 searchVars, otherVars>>

EmbedReturn(r, i, ok) ==
  /\ Started(r)
  /\ i \in 1..Len(baseDirectories[r])
  /\ walker[r][i].pc = "embed"
  /\ LET f == CurFile(r, i)
         k == walker[r][i].chunk
         n == Len(limitedChunks(extractText(f)))
     IN  IF ok
         THEN /\ newVectors' = [newVectors EXCEPT ![r] = Append(@, NewRecord(r, f, k))]
              /\ UNCHANGED embedFailed
              /\ IF k < n
                 THEN /\ walker' = [walker EXCEPT ![r][i].chunk = k + 1]
                      /\ UNCHANGED <<filesProcessed, stream, lateWrites>>
                 ELSE FinishFile(r, i)
         ELSE /\ embedFailed' = [embedFailed EXCEPT ![r] = @ \cup {<<f.path, k>>}]
              /\ UNCHANGED newVectors
              /\ FinishFile(r, i)
  /\ UNCHANGED <<vectorStore, indexFile, nRuns, baseDirectories, totalFiles,
                 endPc, writeData, resEnded, preMergeStore,
                 searchVars, otherVars>>

\* The promise of client.embeddings.create never settles: the handler stays
\* suspended at its await.  The handler sets no timeout on the call.
EmbedHangs(r, i) ==
  /\ Started(r)
  /\ i \in 1..Len(baseDirectories[r])
  /\ walker[r][i].pc = "embed"
  /\ walker' = [walker EXCEPT ![r][i].pc = "hung"]
  /\ UNCHANGED <<vectorStore, indexFile, nRuns, baseDirectories, newVectors,
                 filesProcessed, totalFiles, endPc, writeData, stream,
                 resEnded, lateWrites, embedFailed, preMergeStore,
                 searchVars, otherVars>>

\* [...vectorStore.filter(v => !newVectors.find(n => n.path === v.path)),
\*  ...newVectors]
\* MergeNewFirst is Merge with the fault of putting the new records first.
MergeNewFirst(existing, new) ==
  new
  \o SelectSeq(existing, LAMBDA v : ~ \E k \in 1..Len(new) : new[k].path = v.path)

Merge(existing, new) ==
  SelectSeq(existing, LAMBDA v : ~ \E k \in 1..Len(new) : new[k].path = v.path)
  \o new

\* walker.on('end'): only the walker of the last listed directory merges and
\* issues the write of the index file.
\* WalkerEndAppends is WalkerEnd with the fault of appending the new records
\* without removing the old records of their paths.
WalkerEndAppends(r, i) ==
  /\ Started(r)
  /\ i \in 1..Len(baseDirectories[r])
  /\ walker[r][i].pc = "walk"
  /\ walker[r][i].next > Len(DirFiles(baseDirectories[r][i]))
  /\ walker' = [walker EXCEPT ![r][i].pc = "end"]
  /\ IF i = Len(baseDirectories[r])
     THEN /\ vectorStore' = vectorStore \o newVectors[r]
          /\ writeData' = [writeData EXCEPT ![r] = vectorStore \o newVectors[r]]
          /\ preMergeStore' = [preMergeStore EXCEPT ![r] = vectorStore]
          /\ endPc' = [endPc EXCEPT ![r] = "writeIssued"]
     ELSE UNCHANGED <<vectorStore, writeData, preMergeStore, endPc>>
  /\ UNCHANGED <<indexFile, nRuns, baseDirectories, newVectors, filesProcessed,
                 totalFiles, stream, resEnded, lateWrites, embedFailed,
                 searchVars, otherVars>>

WalkerEnd(r, i) ==
  /\ Started(r)
  /\ i \in 1..Len(baseDirectories[r])
  /\ walker[r][i].pc = "walk"
  /\ walker[r][i].next > Len(DirFiles(baseDirectories[r][i]))
  /\ walker' = [walker EXCEPT ![r][i].pc = "end"]
  /\ IF i = Len(baseDirectories[r])
     THEN /\ vectorStore' = Merge(vectorStore, newVectors[r])
          /\ writeData' = [writeData EXCEPT ![r] = Merge(vectorStore, newVectors[r])]
          /\ preMergeStore' = [preMergeStore EXCEPT ![r] = vectorStore]
          /\ endPc' = [endPc EXCEPT ![r] = "writeIssued"]
     ELSE UNCHANGED <<vectorStore, writeData, preMergeStore, endPc>>
  /\ UNCHANGED <<indexFile, nRuns, baseDirectories, newVectors, filesProcessed,
                 totalFiles, stream, resEnded, lateWrites, embedFailed,
                 searchVars, otherVars>>

\* The terminal record.
CompleteRecord == [status |-> "complete", success |-> TRUE, count |-> Len(vectorStore)]

\* fs.writeFile opens INDEX_FILE for writing, which truncates it.
\* WriteFileOpenEarly is WriteFileOpen with the fault that the terminal
\* record is written without awaiting the write.
WriteFileOpenEarly(r) ==
  /\ Started(r)
  /\ endPc[r] = "writeIssued"
  /\ endPc' = [endPc EXCEPT ![r] = "writing"]
  /\ indexFile' = FilePartial
  /\ ResWrite(r, CompleteRecord)
  /\ UNCHANGED <<vectorStore, nRuns, baseDirectories, newVectors,
                 filesProcessed, totalFiles, walker, writeData, resEnded,
                 embedFailed, preMergeStore,
                 searchVars, otherVars>>

WriteFileOpen(r) ==
  /\ Started(r)
  /\ endPc[r] = "writeIssued"
  /\ endPc' = [endPc EXCEPT ![r] = "writing"]
  /\ indexFile' = FilePartial
  /\ UNCHANGED <<vectorStore, nRuns, baseDirectories, newVectors,
                 filesProcessed, totalFiles, walker, writeData, stream,
                 resEnded, lateWrites, embedFailed, preMergeStore,
                 searchVars, otherVars>>

\* await fs.writeFile resolves: the terminal record is written and the
\* response ended.
WriteFileOk(r) ==
  /\ Started(r)
  /\ endPc[r] = "writing"
  /\ endPc' = [endPc EXCEPT ![r] = "complete"]
  /\ indexFile' = FileWith(writeData[r])
  /\ ResWrite(r, CompleteRecord)
  /\ resEnded' = [resEnded EXCEPT ![r] = TRUE]
  /\ UNCHANGED <<vectorStore, nRuns, baseDirectories, newVectors,
                 filesProcessed, totalFiles, walker, writeData, embedFailed,
                 preMergeStore,
                 searchVars, otherVars>>

\* await fs.writeFile rejects (the open or a write failed): the async 'end'
\* handler throws and nothing after the await runs.
WriteFileFail(r) ==
  /\ Started(r)
  /\ endPc[r] \in {"writeIssued", "writing"}
  /\ endPc' = [endPc EXCEPT ![r] = "threw"]
  /\ UNCHANGED <<vectorStore, indexFile, nRuns, baseDirectories, newVectors,
                 filesProcessed, totalFiles, walker, writeData, stream,
                 resEnded, lateWrites, embedFailed, preMergeStore,
                 searchVars, otherVars>>

\* The steps of run r.
RunStep(r) ==
  \/ \E i \in DOMAIN walker[r] : WalkerFile(r, i)
  \/ \E i \in DOMAIN walker[r] : ExtractReturn(r, i)
  \/ \E i \in DOMAIN walker[r] : \E ok \in BOOLEAN : EmbedReturn(r, i, ok)
  \/ \E i \in DOMAIN walker[r] : WalkerEnd(r, i)
  \/ WriteFileOpen(r)
  \/ WriteFileOk(r)
  \/ WriteFileFail(r)

\* Requests arrive at any time, also while earlier runs are in progress.
Next ==
  \/ \E r \in Runs, dirs \in DirLists : IndexFiles(r, dirs)
  \/ \E r \in Runs : RunStep(r)

Spec == Init /\ [][Next]_vars

\* Every event or callback a run is waiting for is eventually delivered:
\* the walker emits its next event, extractText calls back, an embedding
\* call and fs.writeFile return or fail.
FairSpec == Spec /\ \A r \in Runs : WF_vars(RunStep(r))

\* One request, over one directory or over two that both hold files.
NextWalk ==
  \/ \E dirs \in WalkLists : IndexFiles(1, dirs)
  \/ \E r \in Runs : RunStep(r)

SpecWalk == Init /\ [][NextWalk]_vars

FairWalk == SpecWalk /\ \A r \in Runs : WF_vars(RunStep(r))

\* const chunks = chunkText(content), looked at alone.
ChunkCall(args) ==
  /\ ~ chunkArgs.called
  /\ chunkArgs' = args
  /\ chunks' = chunkTextOf(args.text, args.chunkSize, args.overlap)
  /\ UNCHANGED <<vectorStore, indexFile, nRuns, baseDirectories, newVectors,
                 filesProcessed, totalFiles, walker, endPc, writeData, stream,
                 resEnded, lateWrites, embedFailed, preMergeStore,
                 searchVars, serverPc, clientVars>>

NextChunk == \E args \in ChunkCalls : ChunkCall(args)

SpecChunk == Init /\ [][NextChunk]_vars

\* One request whose embedding calls may also never return.
NextHang ==
  \/ \E dirs \in WalkLists : IndexFiles(1, dirs)
  \/ \E r \in Runs : RunStep(r)
  \/ \E r \in Runs : \E i \in DOMAIN walker[r] : EmbedHangs(r, i)

SpecHang == Init /\ [][NextHang]_vars

\* Every event or callback other than a call that hangs is delivered.
FairHang == SpecHang /\ \A r \in Runs : WF_vars(RunStep(r))

\* One request over the directory of hidden, excluded, short and long
\* files, or over one directory listed twice.
NextScan ==
  \/ \E dirs \in ScanLists : IndexFiles(1, dirs)
  \/ \E r \in Runs : RunStep(r)

SpecScan == Init /\ [][NextScan]_vars

\* ------------------------------------------------------------------------
\* POST /api/semantic-search and GET /api/index-status
\* ------------------------------------------------------------------------
runVars == <<nRuns, baseDirectories, newVectors, filesProcessed, totalFiles,
             walker, endPc, writeData, stream, resEnded, lateWrites,
             embedFailed, preMergeStore>>

\* if (!query || vectorStore.length === 0) return res.status(400).json(..)
\* RejectedQueryOnly is Rejected with the fault of not looking at the store.
RejectedQueryOnly(q) == Falsy(q)

Rejected(q) == Falsy(q) \/ Len(vectorStore) = 0

\* The request arrives: it is answered 400, or the embedding call for the
\* query is issued.
SemanticSearch(q) ==
  /\ serverPc = "listening"
  /\ searchPc \in {"idle", "done"}
  /\ query' = q
  /\ queryEmbedding' = <<>>
  /\ rawResults' = <<>>
  /\ IF Rejected(q)
     THEN /\ searchPc' = "done"
          /\ searchEmbedCalls' = 0
          /\ searchRes' = [status |-> 400, results |-> <<>>]
     ELSE /\ searchPc' = "embedding"
          /\ searchEmbedCalls' = 1
          /\ searchRes' = NoResponse
  /\ UNCHANGED <<vectorStore, indexFile, runVars, otherVars, statusRes>>

\* rawResults: map, sort, filter.  The filter drops every record whose
\* score is NaN, so the lists an implementation-defined order can leave are
\* the orders of the records that pass the filter.
RawOutcomes(store, embedding) ==
  LET docs == Scored(store, embedding)
  IN  IF Inconsistent(docs)
      THEN Reordered(SelectSeq(docs, LAMBDA doc : AboveFloor(doc.score)))
      ELSE {SelectSeq(StableSorted(docs), LAMBDA doc : AboveFloor(doc.score))}

\* res.json({ results: Array.from(uniqueFiles.values()).slice(0, 12) })
\* ResultsCutFirst is Results with the fault of cutting before the
\* duplicates are removed.
ResultsCutFirst(raw) == uniqueFiles(FirstHits(raw))

Results(raw) == FirstHits(uniqueFiles(raw))

\* await client.embeddings.create returns: the results are computed from the
\* store as it is now, and sent.
SearchEmbedOk(embedding) ==
  /\ searchPc = "embedding"
  /\ searchPc' = "done"
  /\ queryEmbedding' = embedding
  /\ \E raw \in RawOutcomes(vectorStore, embedding) :
       /\ rawResults' = raw
       /\ searchRes' = [status |-> 200, results |-> Results(raw)]
  /\ UNCHANGED <<vectorStore, indexFile, runVars, otherVars, query, searchEmbedCalls,
                 statusRes>>

\* await client.embeddings.create throws: catch, res.status(500)
SearchEmbedFail ==
  /\ searchPc = "embedding"
  /\ searchPc' = "done"
  /\ searchRes' = [status |-> 500, results |-> <<>>]
  /\ UNCHANGED <<vectorStore, indexFile, runVars, otherVars, query, queryEmbedding,
                 rawResults, searchEmbedCalls, statusRes>>

\* res.json({ hasIndex: vectorStore.length > 0, count: vectorStore.length })
\* IndexStatusFromFile is IndexStatus with the fault of counting the records
\* of the index file.
IndexStatusFromFile ==
  /\ serverPc = "listening"
  /\ statusRes' = [answered |-> TRUE, hasIndex |-> Len(indexFile.records) > 0,
                   count |-> Len(indexFile.records)]
  /\ UNCHANGED <<vectorStore, indexFile, runVars, otherVars, searchPc, query,
                 queryEmbedding, rawResults, searchEmbedCalls, searchRes>>

IndexStatus ==
  /\ serverPc = "listening"
  /\ statusRes' = [answered |-> TRUE, hasIndex |-> Len(vectorStore) > 0,
                   count |-> Len(vectorStore)]
  /\ UNCHANGED <<vectorStore, indexFile, runVars, otherVars, searchPc, query,
                 queryEmbedding, rawResults, searchEmbedCalls, searchRes>>

\* ------------------------------------------------------------------------
\* Process start
\* ------------------------------------------------------------------------
\* JSON.parse(data) returns: the file holds a whole serialized list.
Parses(file) == file.kind = "whole"

\* (async () => { await loadMemory(); app.listen(..) })(): when JSON.parse
\* throws, loadMemory rejects, nothing catches it and app.listen is never
\* called.  StartUpLenient is StartUp with the fault of catching the error
\* and listening with an empty store.
StartUpLenient ==
  /\ serverPc = "starting"
  /\ IF indexFile.kind = "absent" \/ Parses(indexFile)
     THEN /\ vectorStore' = loadMemory(indexFile)
          /\ serverPc' = "listening"
     ELSE /\ vectorStore' = <<>>
          /\ serverPc' = "listening"
  /\ UNCHANGED <<indexFile, runVars, searchVars, chunkArgs, chunks, clientVars>>

StartUp ==
  /\ serverPc = "starting"
  /\ IF indexFile.kind = "absent" \/ Parses(indexFile)
     THEN /\ vectorStore' = loadMemory(indexFile)
          /\ serverPc' = "listening"
     ELSE /\ UNCHANGED vectorStore
          /\ serverPc' = "crashed"
  /\ UNCHANGED <<indexFile, runVars, searchVars, chunkArgs, chunks, clientVars>>

SearchStep ==
  \/ \E q \in Queries : SemanticSearch(q)
  \/ \E embedding \in QueryEmbeddings : SearchEmbedOk(embedding)
  \/ SearchEmbedFail
  \/ IndexStatus

\* Searches and status requests against a store loaded at start.
SpecSearch == InitSearch /\ [][SearchStep]_vars

\* The index files a starting process can find: none, the file an earlier
\* process persisted, or a file an earlier process did not finish writing.
StartFiles == {FileOf(store) : store \in SearchStores} \cup {FilePartial}

InitStart ==
  /\ vectorStore = <<>>
  /\ indexFile \in StartFiles
  /\ serverPc = "starting"
  /\ InitChunk
  /\ InitClient
  /\ InitRequests
  /\ InitRuns

\* Requests are served once app.listen has been called.
NextStart ==
  \/ StartUp
  \/ SearchStep

SpecStart == InitStart /\ [][NextStart]_vars

\* One index request over one directory, with searches and status requests
\* arriving at any time, against a store loaded at start.
NextServe ==
  \/ \E dirs \in DirLists : IndexFiles(1, dirs)
  \/ \E r \in Runs : RunStep(r)
  \/ SearchStep

SpecServe == InitServe /\ [][NextServe]_vars

\* ------------------------------------------------------------------------
\* The browser: handleIndexFiles of the App component
\* ------------------------------------------------------------------------
\* The characters of the response body are grouped into the pieces between
\* which a network read can end: the two braces of an object, each of its
\* members, and the newline.  (A read that ends inside a member leaves two
\* pieces of which neither is an object, as a read that ends between two
\* members does.)
Brace(c) == [t |-> c, key |-> "", num |-> 0, str |-> ""]
Member(key, num, str) == [t |-> "member", key |-> key, num |-> num, str |-> str]
Newline == Brace("\n")

\* JSON.stringify({ filesProcessed, totalFiles, status: 'indexing' }) + '\n'
\* JSON.stringify({ success: true, count: vectorStore.length, status: 'complete' })
Stringify(rec) ==
  IF rec.status = "indexing"
  THEN <<Brace("{"), Member("filesProcessed", rec.filesProcessed, ""),
         Member("totalFiles", rec.totalFiles, ""),
         Member("status", 0, "indexing"), Brace("}"), Newline>>
  ELSE <<Brace("{"), Member("success", 1, ""), Member("count", rec.count, ""),
         Member("status", 0, "complete"), Brace("}")>>

\* What the res.write calls of a response have put on the wire.
RECURSIVE Body(_)
Body(records) ==
  IF records = <<>> THEN <<>> ELSE Stringify(Head(records)) \o Body(Tail(records))

\* decoder.decode(value).split('\n')
RECURSIVE SplitFrom(_, _)
SplitFrom(value, line) ==
  IF value = <<>>
  THEN <<line>>
  ELSE IF Head(value) = Newline
       THEN <<line>> \o SplitFrom(Tail(value), <<>>)
       ELSE SplitFrom(Tail(value), Append(line, Head(value)))

Split(value) == SplitFrom(value, <<>>)

\* JSON.parse(line) returns an object: the line is a whole object.  On any
\* other line it throws, or returns a value that has none of the members
\* read below.
ParsesAsObject(line) ==
  /\ Len(line) >= 2
  /\ line[1] = Brace("{")
  /\ line[Len(line)] = Brace("}")
  /\ \A k \in 2..(Len(line) - 1) : line[k].t = "member"

\* data.filesProcessed, data.totalFiles (0 for undefined) and data.status
NumberOf(line, key) ==
  IF \E k \in 1..Len(line) : line[k].key = key
  THEN line[CHOOSE k \in 1..Len(line) : line[k].key = key].num
  ELSE 0

StatusOf(line) ==
  IF \E k \in 1..Len(line) : line[k].key = "status"
  THEN line[CHOOSE k \in 1..Len(line) : line[k].key = "status"].str
  ELSE ""

\* for (const line of lines) { if (!line) continue; try { .. } catch { } }
\* on the React state [progress, hasIndex]
RECURSIVE AfterLines(_, _)
AfterLines(lines, state) ==
  IF lines = <<>>
  THEN state
  ELSE LET line == Head(lines)
       IN  IF line = <<>> \/ ~ ParsesAsObject(line)
           THEN AfterLines(Tail(lines), state)
           ELSE AfterLines(Tail(lines),
                  [progress |-> IF NumberOf(line, "filesProcessed") # 0
                                THEN [current |-> NumberOf(line, "filesProcessed"),
                                      total |-> NumberOf(line, "totalFiles")]
                                ELSE state.progress,
                   hasIndex |-> state.hasIndex \/ StatusOf(line) = "complete"])

\* The base directories selected when the button is pressed.
ClientLists == {<<>>, <<"A">>, <<"B">>}

\* The response the page reads: that of the one request it sent.
ResponseBody == Body(stream[1])

serverVars == <<vectorStore, indexFile, runVars, searchVars, serverPc,
                chunkArgs, chunks>>

\* The button is pressed: without a base directory a notice is shown;
\* otherwise setIsIndexing(true), setProgress({ current: 0, total: 1 }) and
\* the request is sent.
HandleIndexFiles(dirs) ==
  /\ clientPc = "idle"
  /\ IF Len(dirs) = 0
     THEN /\ notices' = Append(notices, "select")
          /\ clientPc' = "done"
          /\ UNCHANGED <<requestBody, isIndexing, progress>>
     ELSE /\ isIndexing' = TRUE
          /\ progress' = [current |-> 0, total |-> 1]
          /\ requestBody' = dirs
          /\ clientPc' = "fetching"
          /\ UNCHANGED notices
  /\ UNCHANGED <<hasIndex, received, serverVars>>

\* The request reaches the server.
RequestArrives ==
  /\ clientPc = "fetching"
  /\ IndexFiles(1, requestBody)

\* await fetch resolves once the head of the response has arrived, which
\* the server sends with its first res.write.
FetchResolves ==
  /\ clientPc = "fetching"
  /\ Started(1)
  /\ Len(stream[1]) > 0 \/ resEnded[1]
  /\ clientPc' = "reading"
  /\ UNCHANGED <<requestBody, isIndexing, hasIndex, progress, received, notices,
                 serverVars>>

\* await reader.read() resolves with the next n pieces of the body.
ReadValue(n) ==
  /\ clientPc = "reading"
  /\ n \in 1..(Len(ResponseBody) - received)
  /\ LET value == SubSeq(ResponseBody, received + 1, received + n)
         after == AfterLines(Split(value), [progress |-> progress, hasIndex |-> hasIndex])
     IN  /\ progress' = after.progress
         /\ hasIndex' = after.hasIndex
  /\ received' = received + n
  /\ UNCHANGED <<clientPc, requestBody, isIndexing, notices, serverVars>>

\* await reader.read() resolves with done: the loop is left, the success
\* notice is shown and finally runs.
ReadDone ==
  /\ clientPc = "reading"
  /\ resEnded[1]
  /\ received = Len(ResponseBody)
  /\ notices' = Append(notices, "success")
  /\ isIndexing' = FALSE
  /\ clientPc' = "done"
  /\ UNCHANGED <<requestBody, hasIndex, progress, received, serverVars>>

\* await fetch or await reader.read() rejects (the connection was lost):
\* catch shows the failure notice and finally runs.
StreamFails ==
  /\ clientPc \in {"fetching", "reading"}
  /\ notices' = Append(notices, "failed")
  /\ isIndexing' = FALSE
  /\ clientPc' = "done"
  /\ UNCHANGED <<requestBody, hasIndex, progress, received, serverVars>>

\* The page sends one index request and reads its response while the server
\* works on it.
NextClient ==
  \/ \E dirs \in ClientLists : HandleIndexFiles(dirs)
  \/ RequestArrives
  \/ FetchResolves
  \/ \E n \in 1..Len(ResponseBody) : ReadValue(n)
  \/ ReadDone
  \/ StreamFails
  \/ \E r \in Runs : RunStep(r)

SpecClient == Init /\ [][NextClient]_vars

\* ------------------------------------------------------------------------
\* Derived facts about a run
\* ------------------------------------------------------------------------
ProgressAt(r) == {k \in 1..Len(stream[r]) : stream[r][k].status = "indexing"}
TerminalAt(r) == {k \in 1..Len(stream[r]) : stream[r][k].status = "complete"}
HasTerminal(r) == TerminalAt(r) # {}
WalkersEnded(r) == \A i \in DOMAIN walker[r] : walker[r][i].pc = "end"
\* Every handler of the run has returned or thrown.
RunFinished(r) ==
  Started(r) /\ WalkersEnded(r) /\ endPc[r] \in {"complete", "threw"}
\* The files whose 'file' handler has run to its end in run r.
HandledFiles(r) ==
  {f \in UNION {{DirFiles(baseDirectories[r][i])[m] :
                   m \in 1..(walker[r][i].next - 1)} : i \in DOMAIN walker[r]} :
     ~ Skipped(f)}
RecordsOf(store, p) == {k \in 1..Len(store) : store[k].path = p}

\* ------------------------------------------------------------------------
\* C1.  After an index run has finished, for every file the run handled the
\* store holds no record of that path that was created by an earlier run and
\* was in the store when the run merged, whatever number of records the run
\* produced for the path.
\* ------------------------------------------------------------------------
StaleRecords(r, p) ==
  {k \in RecordsOf(vectorStore, p) :
     /\ vectorStore[k].id[1] < r
     /\ \E j \in 1..Len(preMergeStore[r]) : preMergeStore[r][j] = vectorStore[k]}

C1_NoStaleRecord ==
  \A r \in Runs :
    (RunFinished(r) /\ endPc[r] = "complete")
      => \A f \in HandledFiles(r) : StaleRecords(r, f.path) = {}

\* ------------------------------------------------------------------------
\* C2.  The merge of a run is computed only after all its walkers have ended
\* (every file handled, every embedding call returned), and no record the
\* run produced is missing from the merged store it persists.
\* ------------------------------------------------------------------------
C2_MergeAfterAllWalkers ==
  \A r \in Runs :
    /\ endPc[r] # "none" => WalkersEnded(r)
    /\ RunFinished(r) =>
         \A k \in 1..Len(newVectors[r]) :
           \E j \in 1..Len(writeData[r]) : writeData[r][j] = newVectors[r][k]

\* ------------------------------------------------------------------------
\* C3.  The response of a run carries at most one terminal record, exactly
\* one once it has ended, nothing follows the terminal record, and no
\* progress record is written after the response has ended.
\* ------------------------------------------------------------------------
C3_TerminalIsLast ==
  \A r \in Runs :
    /\ Cardinality(TerminalAt(r)) <= 1
    /\ resEnded[r] => Cardinality(TerminalAt(r)) = 1
    /\ \A k \in TerminalAt(r) : k = Len(stream[r])
    /\ lateWrites[r] = 0

\* ------------------------------------------------------------------------
\* C4.  Every index run that was started eventually emits its terminal
\* summary and ends its response, for every list of base directories, given
\* that every pending callback is eventually delivered.  Runs whose write of
\* the index file failed are left aside here (they are the matter of C8).
\* ------------------------------------------------------------------------
C4_RunTerminates ==
  \A r \in Runs :
    Started(r) ~> ((HasTerminal(r) /\ resEnded[r]) \/ endPc[r] = "threw")

\* ------------------------------------------------------------------------
\* C5.  The final steps of a run are ordered merge, persist, terminal
\* summary: the step that leaves the walking phase merges the new records
\* into the store and issues the write of the merged store, with nothing
\* written to the file or the response yet; the terminal record appears on
\* the response only in the step in which that write completes and leaves
\* its data whole in the file; a response that carries the terminal record
\* belongs to a run whose persist has completed.
\* ------------------------------------------------------------------------
C5_MergeStep(r) ==
  (endPc[r] = "none" /\ endPc'[r] # "none")
    => /\ endPc'[r] = "writeIssued"
       /\ vectorStore' = Merge(vectorStore, newVectors[r])
       /\ writeData'[r] = vectorStore'
       /\ indexFile' = indexFile
       /\ ~ HasTerminal(r)'

C5_TerminalStep(r) ==
  (HasTerminal(r)' /\ ~ HasTerminal(r))
    => /\ endPc[r] = "writing"
       /\ endPc'[r] = "complete"
       /\ indexFile' = FileWith(writeData[r])

C5_MergePersistTerminal ==
  /\ [](\A r \in Runs : HasTerminal(r) => endPc[r] = "complete")
  /\ [][\A r \in Runs : C5_MergeStep(r) /\ C5_TerminalStep(r)]_vars

C5_Witness ==
  \E r \in Runs :
    /\ HasTerminal(r)
    /\ Len(newVectors[r]) > 0
    /\ indexFile = FileWith(writeData[r])

\* ------------------------------------------------------------------------
\* C6.  A file whose text extraction fails does not abort the run: the step
\* that receives the failed extraction counts the file in filesProcessed,
\* writes its progress record and hands control back to the walker, which
\* goes on to the next file; a run over at least one directory eventually
\* reaches its terminal summary unless the write of the index file fails;
\* and a run over the directory that holds one unreadable file and one valid
\* file of 2000 characters has, at its terminal summary, filesProcessed = 2
\* and, when no embedding call failed, at least one persisted record of the
\* valid file.
\* ------------------------------------------------------------------------
ExtractionFails(f) == ~ Skipped(f) /\ extractText(f) = 0

C6_FailedExtractionStep(r, i) ==
  (/\ walker[r][i].pc = "extract"
   /\ ExtractionFails(CurFile(r, i))
   /\ walker'[r][i] # walker[r][i])
    => /\ filesProcessed'[r] = filesProcessed[r] + 1
       /\ walker'[r][i].pc = "walk"
       /\ walker'[r][i].next = walker[r][i].next + 1
       /\ newVectors'[r] = newVectors[r]
       /\ \/ /\ Len(stream'[r]) = Len(stream[r]) + 1
             /\ stream'[r][Len(stream'[r])].filesProcessed = filesProcessed'[r]
          \/ lateWrites'[r] = lateWrites[r] + 1

C6_Scenario(r) ==
  (baseDirectories[r] = <<"A">> /\ HasTerminal(r))
    => /\ filesProcessed[r] = 2
       /\ FileU \in HandledFiles(r) /\ FileA \in HandledFiles(r)
       /\ embedFailed[r] = {} =>
            \E k \in RecordsOf(writeData[r], FileA.path) : writeData[r][k].id[1] = r

C6_ExtractionFailureDoesNotAbort ==
  /\ [](\A r \in Runs : C6_Scenario(r))
  /\ [][\A r \in Runs : \A i \in DOMAIN walker[r] :
          C6_FailedExtractionStep(r, i)]_vars
  /\ \A r \in Runs :
       (Started(r) /\ Len(baseDirectories[r]) > 0)
         ~> (HasTerminal(r) \/ endPc[r] = "threw")

C6_Witness ==
  \E r \in Runs :
    /\ baseDirectories[r] = <<"A">>
    /\ HasTerminal(r)
    /\ embedFailed[r] = {}
    /\ filesProcessed[r] = 2
    /\ RecordsOf(vectorStore, FileA.path) # {}

\* ------------------------------------------------------------------------
\* C7.  When an embedding call fails for one chunk of a file, the other
\* retained chunks of the file are still embedded: once the file is handled,
\* every retained chunk of it has either a record or a failed call.
\* ------------------------------------------------------------------------
ChunkAttempted(r, f, k) ==
  \/ <<f.path, k>> \in embedFailed[r]
  \/ \E j \in 1..Len(newVectors[r]) :
       /\ newVectors[r][j].path = f.path
       /\ newVectors[r][j].preview = limitedChunks(extractText(f))[k]

C7_OnlyFailedChunkSkipped ==
  \A r \in Runs : \A f \in HandledFiles(r) :
    Indexable(extractText(f)) =>
      \A k \in 1..Len(limitedChunks(extractText(f))) : ChunkAttempted(r, f, k)

\* ------------------------------------------------------------------------
\* C8.  When the write of the index file fails in a run that produced
\* records, the failure is reported on the response, which is ended, and the
\* in-memory store equals its content from before the merge of that run.
\* ------------------------------------------------------------------------
C8_PersistFailureReported ==
  \A r \in Runs :
    (endPc[r] = "threw" /\ newVectors[r] # <<>>)
      => /\ resEnded[r]
         /\ ~ HasTerminal(r)
         /\ vectorStore = preMergeStore[r]

\* ------------------------------------------------------------------------
\* C9.  At most one index run is in progress at any time.
\* ------------------------------------------------------------------------
InProgress(r) == Started(r) /\ ~ RunFinished(r)

C9_OneRunAtATime ==
  \A r, q \in Runs : (InProgress(r) /\ InProgress(q)) => r = q

\* ------------------------------------------------------------------------
\* C10.  The filesProcessed values of the progress records on the response
\* of a run never decrease in emission order, also when the walkers of two
\* directories are at work at the same time.
\* ------------------------------------------------------------------------
C10_ProgressMonotonic ==
  \A r \in Runs : \A j, k \in ProgressAt(r) :
    j < k => stream[r][j].filesProcessed <= stream[r][k].filesProcessed

\* Both walkers of a run have handled a file and three records were sent.
C10_Witness ==
  \E r \in Runs :
    /\ Len(baseDirectories[r]) = 2
    /\ \A i \in DOMAIN walker[r] : walker[r][i].next > 1
    /\ Cardinality(ProgressAt(r)) = 3

\* ------------------------------------------------------------------------
\* Derived facts about a search
\* ------------------------------------------------------------------------
\* The query is empty or holds nothing but blanks.
IsBlank(q) == \A i \in 1..Len(q) : q[i] = " "
\* The search has been answered with a result list.
Answered == searchPc = "done" /\ searchRes.status = 200
\* The scores of the stored records against the query embedding.
StoreScores == Scored(vectorStore, queryEmbedding)
\* The positions of rawResults that hold the first result of their path.
FirstOfPath == {k \in 1..Len(rawResults) :
                  \A j \in 1..(k - 1) : rawResults[j].path # rawResults[k].path}
\* The n-th of them.
NthFirst(n) == CHOOSE k \in FirstOfPath :
                 Cardinality({j \in FirstOfPath : j <= k}) = n
\* The result the n-th hit was built from.
WinnerOf(n) == rawResults[CHOOSE k \in FirstOfPath :
                            rawResults[k].path = searchRes.results[n].path]
\* A step in which a search request arrives.
SearchArrives ==
  /\ searchPc \in {"idle", "done"}
  /\ <<searchPc, query, searchRes, searchEmbedCalls>>'
       # <<searchPc, query, searchRes, searchEmbedCalls>>

\* ------------------------------------------------------------------------
\* C11.  A search whose query is empty or holds only whitespace is answered
\* with an error response and issues no embedding call.
\* ------------------------------------------------------------------------
C11_BlankQueryRejected ==
  (searchPc # "idle" /\ IsBlank(query))
    => /\ searchPc = "done"
       /\ searchRes.status = 400
       /\ searchEmbedCalls = 0

\* ------------------------------------------------------------------------
\* C12.  A search that arrives while the store has no record is answered
\* with an error response at once: no embedding call is issued and no
\* result list is sent.
\* ------------------------------------------------------------------------
C12_EmptyStoreRejected ==
  [][(SearchArrives /\ Len(vectorStore) = 0)
       => /\ searchPc' = "done"
          /\ searchRes'.status = 400
          /\ searchRes'.results = <<>>
          /\ searchEmbedCalls' = 0]_vars

C12_Witness ==
  /\ searchPc = "done"
  /\ ~ IsBlank(query)
  /\ Len(vectorStore) = 0
  /\ searchRes.status = 400
  /\ searchEmbedCalls = 0

\* ------------------------------------------------------------------------
\* C13.  A result list holds at most 12 hits, and they are the first 12
\* distinct paths of the sorted and filtered list, in its order (all of them
\* when there are fewer than 12).
\* ------------------------------------------------------------------------
C13_AtMostTwelveAfterDedup ==
  Answered
    => /\ Len(searchRes.results) <= MaxHits
       /\ Len(searchRes.results) = Min(Cardinality(FirstOfPath), MaxHits)
       /\ \A n \in 1..Len(searchRes.results) :
            searchRes.results[n] = Hit(rawResults[NthFirst(n)])

\* more than 12 distinct paths pass, and one of the first 12 results repeats
\* a path
C13_Witness ==
  /\ Answered
  /\ Cardinality(FirstOfPath) > MaxHits
  /\ \E k \in 1..MaxHits : k \notin FirstOfPath
  /\ Len(searchRes.results) = MaxHits

\* ------------------------------------------------------------------------
\* C14.  A result list holds at most one hit per path; the hit of a path is
\* built from a stored chunk of that path that no other stored chunk of the
\* path outscores; and no hit is outscored by a hit that follows it.
\* ------------------------------------------------------------------------
C14_BestChunkPerPathInOrder ==
  Answered
    => LET hits == searchRes.results
       IN  /\ \A n, m \in 1..Len(hits) : hits[n].path = hits[m].path => n = m
           /\ \A n \in 1..Len(hits) :
                /\ hits[n] = Hit(WinnerOf(n))
                /\ \A k \in 1..Len(StoreScores) :
                     StoreScores[k].path = hits[n].path
                       => ~ ScoreGreater(StoreScores[k].score, WinnerOf(n).score)
           /\ \A n, m \in 1..Len(hits) :
                n < m => ~ ScoreGreater(WinnerOf(m).score, WinnerOf(n).score)

\* ------------------------------------------------------------------------
\* C15.  No hit is built from a stored record whose cosine similarity to the
\* query is 0.25 or less: a record that scores exactly 0.25 gives no hit.
\* ------------------------------------------------------------------------
C15_FloorIsStrict ==
  Answered
    => \A n \in 1..Len(searchRes.results) :
         \A k \in 1..Len(StoreScores) :
           (/\ StoreScores[k].path = searchRes.results[n].path
            /\ Summary(StoreScores[k].preview) = searchRes.results[n].summary)
             => LET s == StoreScores[k].score
                IN  /\ ~ s.nan
                    /\ s.dot > 0
                    /\ 16 * s.dot * s.dot > s.normA * s.normB

\* a stored record, the only one of its path, scores exactly 0.25, and the
\* list holds hits but none for that path
C15_Witness ==
  /\ Answered
  /\ Len(searchRes.results) > 0
  /\ \E k \in 1..Len(StoreScores) :
       LET s == StoreScores[k].score
       IN  /\ ~ s.nan
           /\ s.dot > 0
           /\ 16 * s.dot * s.dot = s.normA * s.normB
           /\ \A n \in 1..Len(searchRes.results) :
                searchRes.results[n].path # StoreScores[k].path

\* ------------------------------------------------------------------------
\* C16.  When the embedding of the query and the embedding of a stored
\* record have different lengths, the search is answered with an error and
\* sends no result list.
\* ------------------------------------------------------------------------
DimensionMismatch ==
  \E k \in 1..Len(vectorStore) :
    Len(vectorStore[k].embedding) # Len(queryEmbedding)

C16_DimensionMismatchFails ==
  (searchPc = "done" /\ queryEmbedding # <<>> /\ DimensionMismatch)
    => searchRes.status = 500

\* ------------------------------------------------------------------------
\* C17.  A step of a search or of a status request leaves the store and the
\* index file as they are; the store changes only in the merge step of a
\* run; and while a run has not merged, none of its records is in the store
\* or among the results of a search.
\* ------------------------------------------------------------------------
MergeStep(r) == endPc[r] = "none" /\ endPc'[r] = "writeIssued"

RecordsOfRun(list, r) == {k \in 1..Len(list) : list[k].id[1] = r}

C17_ReadsSeeMergedStoreOnly ==
  /\ [][searchVars' # searchVars
          => (vectorStore' = vectorStore /\ indexFile' = indexFile)]_vars
  /\ [][vectorStore' # vectorStore => \E r \in Runs : MergeStep(r)]_vars
  /\ [](\A r \in Runs :
          (Started(r) /\ endPc[r] = "none")
            => /\ RecordsOfRun(vectorStore, r) = {}
               /\ RecordsOfRun(rawResults, r) = {})

\* a search has been answered with hits and a status request answered while
\* a run holds records it has not merged
C17_Witness ==
  /\ Started(1)
  /\ endPc[1] = "none"
  /\ newVectors[1] # <<>>
  /\ Answered
  /\ Len(searchRes.results) > 0
  /\ statusRes.answered
  /\ statusRes.count = Len(vectorStore)

\* ------------------------------------------------------------------------
\* C18.  The merge of a run yields the existing records whose path does not
\* occur among the new records, in their order, followed by the new records
\* in their order; so for every path among the new records the result holds
\* as many records as the new records do.
\* ------------------------------------------------------------------------
PathsOf(list) == {list[k].path : k \in 1..Len(list)}

KeptAt(existing, new) ==
  {k \in 1..Len(existing) : existing[k].path \notin PathsOf(new)}

C18_MergeResult(existing, new, result) ==
  LET kept == KeptAt(existing, new)
      nk == Cardinality(kept)
  IN  /\ Len(result) = nk + Len(new)
      /\ \A n \in 1..nk :
           result[n] = existing[CHOOSE k \in kept :
                                  Cardinality({j \in kept : j <= k}) = n]
      /\ \A n \in 1..Len(new) : result[nk + n] = new[n]
      /\ \A p \in PathsOf(new) :
           Cardinality(RecordsOf(result, p)) = Cardinality(RecordsOf(new, p))

C18_MergeKeepsOthersThenNew ==
  [][\A r \in Runs :
       MergeStep(r) => C18_MergeResult(vectorStore, newVectors[r], vectorStore')]_vars

\* a run has merged new records into a store that held records of one of
\* their paths and records of another path
C18_Witness ==
  /\ endPc[1] # "none"
  /\ newVectors[1] # <<>>
  /\ KeptAt(preMergeStore[1], newVectors[1]) # {}
  /\ KeptAt(preMergeStore[1], newVectors[1]) # DOMAIN preMergeStore[1]
  /\ vectorStore = writeData[1]

\* ------------------------------------------------------------------------
\* C19.  When a run q and then a run r index the same directory, every
\* embedding call of both succeeding, and r merges into the store q left,
\* the store r leaves holds for every path of the directory exactly the
\* records of r, with the chunk texts q left for that path, and for every
\* other path what q left.
\* ------------------------------------------------------------------------
RecordsAt(list, p) == SelectSeq(list, LAMBDA v : v.path = p)

PreviewsOf(list, p) ==
  [k \in 1..Len(RecordsAt(list, p)) |-> RecordsAt(list, p)[k].preview]

InSuccession(q, r) ==
  /\ q # r
  /\ endPc[q] # "none"
  /\ endPc[r] # "none"
  /\ baseDirectories[q] = baseDirectories[r]
  /\ embedFailed[q] = {}
  /\ embedFailed[r] = {}
  /\ newVectors[q] # <<>>
  /\ preMergeStore[r] = writeData[q]

C19_ReindexIdempotent ==
  \A q, r \in Runs :
    InSuccession(q, r)
      => \A p \in PathsOf(writeData[q]) \cup PathsOf(writeData[r]) :
           IF p \in PathsOf(newVectors[q])
           THEN /\ RecordsAt(writeData[r], p) = RecordsAt(newVectors[r], p)
                /\ PreviewsOf(writeData[r], p) = PreviewsOf(writeData[q], p)
           ELSE RecordsAt(writeData[r], p) = RecordsAt(writeData[q], p)

C19_Witness ==
  \E q, r \in Runs :
    /\ InSuccession(q, r)
    /\ endPc[q] = "complete"
    /\ endPc[r] = "complete"
    /\ vectorStore = writeData[r]
    /\ Len(vectorStore) > 1

\* ------------------------------------------------------------------------
\* C20.  A text that is not empty and not longer than the chunk size is cut
\* into exactly one window, the whole text, and the empty text into none: a
\* file of at most 1000 characters (and more than 50) whose embedding calls
\* succeed gives exactly one record.
\* ------------------------------------------------------------------------
C20_FittingTextOneChunk ==
  \A r \in Runs :
    \A f \in HandledFiles(r) :
      LET text == extractText(f)
      IN  /\ text = 0 => chunkText(text) = <<>>
          /\ (/\ Indexable(text)
               /\ text <= DefaultChunkSize
               /\ \A k \in 1..MaxChunksPerFile : <<f.path, k>> \notin embedFailed[r])
                => /\ chunkText(text) = <<[start |-> 0, end |-> text]>>
                   /\ Cardinality(RecordsOf(newVectors[r], f.path)) = 1

\* ------------------------------------------------------------------------
\* C21.  The index file is replaced atomically: whenever it is read it holds
\* a whole serialized list (or does not exist), never a partly written one.
\* ------------------------------------------------------------------------
C21_FileNeverPartial == indexFile.kind \in {"absent", "whole"}

\* ------------------------------------------------------------------------
\* C22.  A process that listens has an empty store when it found no index
\* file and the persisted list when it found one; a process that found a
\* file it cannot parse does not listen and answers no request.
\* ------------------------------------------------------------------------
C22_StartLoadsOrFails ==
  /\ serverPc = "listening"
       => /\ indexFile.kind # "partial"
          /\ indexFile.kind = "absent" => vectorStore = <<>>
          /\ indexFile.kind = "whole" => vectorStore = indexFile.records
  /\ indexFile.kind = "partial"
       => /\ serverPc \in {"starting", "crashed"}
          /\ searchPc = "idle"
          /\ ~ statusRes.answered

\* the start found a file it could not parse
C22_Witness == serverPc = "crashed" /\ indexFile.kind = "partial"

\* ------------------------------------------------------------------------
\* C23.  The answer of a status request carries the number of records the
\* store holds when the request is handled, and hasIndex exactly when that
\* number is above 0, before, during and after an index run.
\* ------------------------------------------------------------------------
C23_StatusCountsStore ==
  [][statusRes' # statusRes
       => /\ statusRes'.answered
          /\ statusRes'.count = Len(vectorStore)
          /\ statusRes'.hasIndex = (Len(vectorStore) > 0)]_vars

\* a status request was answered after the merge of a run and before its
\* write of the index file returned
C23_Witness ==
  /\ endPc[1] \in {"writeIssued", "writing"}
  /\ statusRes.answered
  /\ statusRes.hasIndex
  /\ statusRes.count = Len(vectorStore)
  /\ statusRes.count # Len(indexFile.records)

\* ------------------------------------------------------------------------
\* C24.  A run with an embedding call that never returns still comes to its
\* end: the call is given up after a bounded wait and the run writes its
\* terminal record (or fails to persist).
\* ------------------------------------------------------------------------
HasHungCall(r) == \E i \in DOMAIN walker[r] : walker[r][i].pc = "hung"

C24_HungCallDoesNotHangRun ==
  \A r \in Runs :
    HasHungCall(r) ~> (HasTerminal(r) \/ endPc[r] = "threw")

\* ------------------------------------------------------------------------
\* Derived facts about a call of chunkText
\* ------------------------------------------------------------------------
Step == chunkArgs.chunkSize - chunkArgs.overlap
\* The last n characters of a string, the string without its first n
\* characters.
LastChars(str, n) == SubSeq(str, Len(str) - n + 1, Len(str))
Stripped(str, n) == SubSeq(str, n + 1, Len(str))

\* ------------------------------------------------------------------------
\* C25.  chunkText returns, in order, the windows of chunkSize characters
\* that start at 0, step, 2 * step, .. for exactly the starts below the
\* length of the text; no window is longer than chunkSize and only the last
\* is shorter.
\* ------------------------------------------------------------------------
C25_WindowsAtMultiplesOfStep ==
  chunkArgs.called
    => LET text == chunkArgs.text
           size == chunkArgs.chunkSize
       IN  /\ Len(chunks)
                = Cardinality({k \in 0..Len(text) : k * Step < Len(text)})
           /\ \A k \in 1..Len(chunks) :
                /\ chunks[k] = [j \in 1..Len(chunks[k]) |-> text[(k - 1) * Step + j]]
                /\ Len(chunks[k]) <= size
                /\ Len(chunks[k]) = size
                     \/ (k - 1) * Step + Len(chunks[k]) = Len(text)
           /\ \A k \in 1..(Len(chunks) - 1) : Len(chunks[k]) = size

\* ------------------------------------------------------------------------
\* C26.  Every window but the first is at least overlap characters long and
\* its first overlap characters are the last overlap characters of the
\* window before it.
\* ------------------------------------------------------------------------
C26_WindowsShareOverlap ==
  chunkArgs.called
    => \A k \in 2..Len(chunks) :
         /\ Len(chunks[k]) >= chunkArgs.overlap
         /\ Len(chunks[k - 1]) >= chunkArgs.overlap
         /\ SubSeq(chunks[k], 1, chunkArgs.overlap)
              = LastChars(chunks[k - 1], chunkArgs.overlap)

\* ------------------------------------------------------------------------
\* C27.  The first chunk followed by every later chunk without its first
\* overlap characters is the text.
\* ------------------------------------------------------------------------
RECURSIVE Rejoined(_, _)
Rejoined(list, overlap) ==
  IF list = <<>>
  THEN <<>>
  ELSE Rejoined(SubSeq(list, 1, Len(list) - 1), overlap)
       \o (IF Len(list) = 1
           THEN list[1]
           ELSE Stripped(list[Len(list)], overlap))

C27_ChunksRejoinToText ==
  chunkArgs.called => Rejoined(chunks, chunkArgs.overlap) = chunkArgs.text

\* three or more chunks with an overlap, the last of them shorter than the
\* overlap
C27_Witness ==
  /\ chunkArgs.called
  /\ chunkArgs.overlap > 0
  /\ Len(chunks) >= 3
  /\ Len(chunks[Len(chunks)]) < chunkArgs.overlap

\* ------------------------------------------------------------------------
\* C28.  The number of chunks is
\* ceil(max(0, length - overlap) / (chunkSize - overlap)); stated here for
\* the texts that are longer than the overlap.
\* ------------------------------------------------------------------------
CeilDiv(a, b) == (a + b - 1) \div b

C28_ChunkCount ==
  (chunkArgs.called /\ Len(chunkArgs.text) > chunkArgs.overlap)
    => LET rest == Len(chunkArgs.text) - chunkArgs.overlap
       IN  Len(chunks) = CeilDiv(IF rest > 0 THEN rest ELSE 0, Step)

\* ------------------------------------------------------------------------
\* C29.  The sorted and filtered list of a search holds the stored records
\* that pass the floor, by score descending, records of equal score in the
\* order of the store, whatever the store holds.
\* ------------------------------------------------------------------------
StorePosition(doc) ==
  CHOOSE k \in 1..Len(vectorStore) : vectorStore[k].id = doc.id

C29_SortedByScoreStable ==
  Answered
    => /\ Len(rawResults)
            = Cardinality({k \in 1..Len(StoreScores) : AboveFloor(StoreScores[k].score)})
       /\ \A n, m \in 1..Len(rawResults) :
            n < m
              => /\ ~ ScoreGreater(rawResults[m].score, rawResults[n].score)
                 /\ ScoreGreater(rawResults[n].score, rawResults[m].score)
                      \/ StorePosition(rawResults[n]) < StorePosition(rawResults[m])

\* ------------------------------------------------------------------------
\* C30.  When the embedding of the query or of a stored record has norm
\* zero, the score of that record is 0, not NaN.
\* ------------------------------------------------------------------------
ZeroNorm(vec) == \A i \in 1..Len(vec) : vec[i] = 0

C30_ZeroNormScoresZero ==
  Answered
    => \A k \in 1..Len(StoreScores) :
         (/\ Len(StoreScores[k].embedding) = Len(queryEmbedding)
          /\ ZeroNorm(queryEmbedding) \/ ZeroNorm(StoreScores[k].embedding))
           => /\ ~ StoreScores[k].score.nan
              /\ StoreScores[k].score.dot = 0

\* ------------------------------------------------------------------------
\* C31.  The preview text of a hit is the text of the winning chunk,
\* unchanged and without ellipsis when that text has at most 150 characters,
\* and its first 150 characters followed by an ellipsis when it is longer.
\* ------------------------------------------------------------------------
PreviewLength(preview) == preview.end - preview.start

C31_EllipsisOnlyWhenCut ==
  Answered
    => \A n \in 1..Len(searchRes.results) :
         LET text == WinnerOf(n).preview
             summary == searchRes.results[n].summary
         IN  /\ summary.start = text.start
             /\ summary.end = Min(text.start + SummaryLength, text.end)
             /\ summary.ellipsis <=> (PreviewLength(text) > SummaryLength)

\* ------------------------------------------------------------------------
\* Derived facts about the files of a run
\* ------------------------------------------------------------------------
Directories == {"A", "B", "H"}
KnownFiles ==
  UNION {{DirFiles(d)[m] : m \in 1..Len(DirFiles(d))} : d \in Directories}
\* The walker is suspended at an embedding call.
AtEmbeddingCall(r, i) == walker[r][i].pc \in {"embed", "hung"}
\* The records and the failed calls of run r for path p.
RunRecordsAt(r, p) == {k \in 1..Len(newVectors[r]) : newVectors[r][k].path = p}
RunFailuresAt(r, p) == {c \in embedFailed[r] : c[1] = p}
\* No embedding call was issued and no record was made for path p in run r.
Untouched(r, p) ==
  /\ RunRecordsAt(r, p) = {}
  /\ RunFailuresAt(r, p) = {}
  /\ \A i \in DOMAIN walker[r] :
       (AtEmbeddingCall(r, i) /\ walker[r][i].next <= Len(DirFiles(baseDirectories[r][i])))
         => CurFile(r, i).path # p
  /\ \A k \in 1..Len(vectorStore) :
       vectorStore[k].id[1] = r => vectorStore[k].path # p

\* ------------------------------------------------------------------------
\* C32.  In an index run no embedding call is issued and no record is made
\* for a file whose extracted text is empty or has 50 characters or fewer,
\* and the step that receives such a text counts the file in filesProcessed
\* and hands control back to the walker.
\* ------------------------------------------------------------------------
TooShort(f) == ~ f.dot /\ ~ f.nodeModules /\ extractText(f) <= MinContentLength

C32_ShortFileStep(r, i) ==
  (/\ walker[r][i].pc = "extract"
   /\ TooShort(CurFile(r, i))
   /\ walker'[r][i] # walker[r][i])
    => /\ filesProcessed'[r] = filesProcessed[r] + 1
       /\ walker'[r][i].pc = "walk"
       /\ walker'[r][i].next = walker[r][i].next + 1
       /\ newVectors'[r] = newVectors[r]
       /\ embedFailed'[r] = embedFailed[r]

C32_ShortTextNotEmbedded ==
  /\ [](\A r \in Runs : \A f \in KnownFiles : TooShort(f) => Untouched(r, f.path))
  /\ [][\A r \in Runs : \A i \in DOMAIN walker[r] : C32_ShortFileStep(r, i)]_vars

\* the run over H has handled the file of 50 characters and the long file,
\* and has counted both
C32_Witness ==
  /\ baseDirectories[1] = <<"H">>
  /\ FileShort \in HandledFiles(1)
  /\ filesProcessed[1] = 2
  /\ RunRecordsAt(1, FileLong.path) # {}
  /\ RunRecordsAt(1, FileShort.path) = {}

\* ------------------------------------------------------------------------
\* C33.  For each file visited in an index run at most 5 chunks are
\* embedded, and they are the first 5 chunks of the text in chunk order: the
\* first call of a visit is for chunk 1, the call after the one for chunk k
\* is for chunk k + 1, no call is for a chunk beyond the fifth, and every
\* record of the run holds one of the first 5 chunks of its file.
\* ------------------------------------------------------------------------
FirstChunks(f) ==
  {chunkText(extractText(f))[k] :
     k \in 1..Min(Len(chunkText(extractText(f))), MaxChunksPerFile)}

C33_VisitStep(r, i) ==
  LET f == CurFile(r, i)
      k == walker[r][i].chunk
      all == chunkText(extractText(f))
  IN  /\ (walker[r][i].pc = "extract" /\ walker'[r][i].pc = "embed")
           => walker'[r][i].chunk = 1
      /\ (walker[r][i].pc = "embed" /\ walker'[r][i] # walker[r][i])
           => /\ k <= MaxChunksPerFile
              /\ k <= Len(all)
              /\ \/ newVectors'[r] = newVectors[r]
                 \/ /\ Len(newVectors'[r]) = Len(newVectors[r]) + 1
                    /\ SubSeq(newVectors'[r], 1, Len(newVectors[r])) = newVectors[r]
                    /\ newVectors'[r][Len(newVectors'[r])].path = f.path
                    /\ newVectors'[r][Len(newVectors'[r])].preview = all[k]
              /\ walker'[r][i].pc = "embed"
                   => /\ walker'[r][i].chunk = k + 1
                      /\ walker'[r][i].next = walker[r][i].next
              /\ walker'[r][i].pc # "embed" => walker'[r][i].pc \in {"walk", "hung"}

C33_RecordsOfFirstChunks(r) ==
  /\ \A i \in DOMAIN walker[r] :
       AtEmbeddingCall(r, i) => walker[r][i].chunk \in 1..MaxChunksPerFile
  /\ \A c \in embedFailed[r] : c[2] \in 1..MaxChunksPerFile
  /\ \A f \in KnownFiles :
       /\ \A k \in RunRecordsAt(r, f.path) : newVectors[r][k].preview \in FirstChunks(f)
       /\ Cardinality(RunRecordsAt(r, f.path))
            <= MaxChunksPerFile * Len(baseDirectories[r])

C33_AtMostFirstFiveChunks ==
  /\ [](\A r \in Runs : C33_RecordsOfFirstChunks(r))
  /\ [][\A r \in Runs : \A i \in DOMAIN walker[r] :
          (walker[r][i].pc \in {"extract", "embed"}) => C33_VisitStep(r, i)]_vars

\* the run over H has handled the file of seven chunks without a failed
\* call: its records are the first five chunks, in order
C33_Witness ==
  /\ baseDirectories[1] = <<"H">>
  /\ endPc[1] = "complete"
  /\ Len(chunkText(extractText(FileLong))) > MaxChunksPerFile
  /\ Len(newVectors[1]) = MaxChunksPerFile
  /\ \A k \in 1..MaxChunksPerFile :
       /\ newVectors[1][k].path = FileLong.path
       /\ newVectors[1][k].preview = chunkText(extractText(FileLong))[k]

\* ------------------------------------------------------------------------
\* C34.  Within one index run at most one embedding call is in flight at
\* any time, also when the run covers several base directories.
\* ------------------------------------------------------------------------
CallsInFlight(r) == {i \in DOMAIN walker[r] : AtEmbeddingCall(r, i)}

C34_OneEmbeddingCallInFlight ==
  \A r \in Runs : Cardinality(CallsInFlight(r)) <= 1

\* ------------------------------------------------------------------------
\* C35.  In an index run a file whose name starts with '.' or whose path
\* contains 'node_modules' is never extracted or embedded and gets no
\* record, and the step that handles it changes neither totalFiles nor
\* filesProcessed and writes no progress record.
\* ------------------------------------------------------------------------
Excluded(f) == f.dot \/ f.nodeModules

C35_ExcludedFileStep(r, i) ==
  (/\ walker[r][i].pc = "walk"
   /\ walker[r][i].next <= Len(DirFiles(baseDirectories[r][i]))
   /\ Excluded(CurFile(r, i))
   /\ walker'[r][i] # walker[r][i])
    => /\ walker'[r][i].pc = "walk"
       /\ walker'[r][i].next = walker[r][i].next + 1
       /\ totalFiles'[r] = totalFiles[r]
       /\ filesProcessed'[r] = filesProcessed[r]
       /\ stream'[r] = stream[r]
       /\ lateWrites'[r] = lateWrites[r]
       /\ newVectors'[r] = newVectors[r]

C35_ExcludedFileNotAt(r, i) ==
  (/\ walker[r][i].pc # "walk"
   /\ walker[r][i].next <= Len(DirFiles(baseDirectories[r][i])))
    => ~ Excluded(CurFile(r, i))

C35_ExcludedFilesIgnored ==
  /\ [](\A r \in Runs :
          /\ \A f \in KnownFiles : Excluded(f) => Untouched(r, f.path)
          /\ \A i \in DOMAIN walker[r] : C35_ExcludedFileNotAt(r, i))
  /\ [][\A r \in Runs : \A i \in DOMAIN walker[r] : C35_ExcludedFileStep(r, i)]_vars

\* the run over H has passed the hidden file and the file under
\* node_modules and has come to its end: two files were counted
C35_Witness ==
  /\ baseDirectories[1] = <<"H">>
  /\ endPc[1] = "complete"
  /\ walker[1][1].next > Len(DirFiles("H"))
  /\ Excluded(DirFiles("H")[1]) /\ Excluded(DirFiles("H")[2])
  /\ totalFiles[1] = 2
  /\ filesProcessed[1] = 2
  /\ Cardinality(ProgressAt(1)) = 2

\* ------------------------------------------------------------------------
\* C36.  Every progress record on the response of a run has
\* 0 <= filesProcessed <= totalFiles, the k-th progress record carries
\* filesProcessed = k, and the response carries exactly one progress record
\* for every file the run has handled that was not skipped.
\* ------------------------------------------------------------------------
\* The number of files that walkers 1..n of run r have handled to the end
\* of the 'file' handler and that were not skipped.
RECURSIVE HandledBy(_, _)
HandledBy(r, n) ==
  IF n = 0
  THEN 0
  ELSE HandledBy(r, n - 1)
       + Cardinality({m \in 1..(walker[r][n].next - 1) :
                        ~ Excluded(DirFiles(baseDirectories[r][n])[m])})

C36_RecordInBounds(r) ==
  \A k \in ProgressAt(r) :
    /\ 0 <= stream[r][k].filesProcessed
    /\ stream[r][k].filesProcessed <= stream[r][k].totalFiles

C36_RecordCarriesRank(r) ==
  \A k \in ProgressAt(r) :
    stream[r][k].filesProcessed = Cardinality({j \in ProgressAt(r) : j <= k})

C36_OneRecordPerFile(r) ==
  Cardinality(ProgressAt(r)) = HandledBy(r, Len(walker[r]))

C36_OneProgressRecordPerFile ==
  \A r \in Runs :
    /\ C36_RecordInBounds(r)
    /\ C36_RecordCarriesRank(r)
    /\ C36_OneRecordPerFile(r)

\* ------------------------------------------------------------------------
\* C37.  The store holds at most 5 records for any one path, also after a
\* run whose base directories are listed twice, so that a file is walked
\* more than once in the run.
\* ------------------------------------------------------------------------
C37_AtMostFiveRecordsPerPath ==
  \A p \in PathsOf(vectorStore) :
    Cardinality(RecordsOf(vectorStore, p)) <= MaxChunksPerFile

\* ------------------------------------------------------------------------
\* C38.  Whenever no index run is in progress and every run that was
\* started has completed its write, at least one of them, the index file
\* holds the serialization of the store, also when two runs overlapped.
\* ------------------------------------------------------------------------
AllRunsCompleted ==
  /\ nRuns >= 1
  /\ \A r \in Runs : Started(r) => (WalkersEnded(r) /\ endPc[r] = "complete")

C38_FileEqualsStoreAtRest ==
  AllRunsCompleted => indexFile = FileWith(vectorStore)

\* ------------------------------------------------------------------------
\* C39.  However the response body of an index run is cut into network
\* reads: once the page has read a body that holds the terminal record,
\* hasIndex is true; isIndexing is true while the request is under way and
\* false once the stream has ended or failed; and the progress shown is the
\* value set when the button was pressed or the filesProcessed and
\* totalFiles of a progress record the server sent.
\* ------------------------------------------------------------------------
C39_TerminalSetsHasIndex ==
  (/\ clientPc \in {"reading", "done"}
   /\ HasTerminal(1)
   /\ received = Len(ResponseBody))
    => hasIndex

C39_IsIndexingReset ==
  /\ clientPc \in {"fetching", "reading"} => isIndexing
  /\ clientPc = "done" => ~ isIndexing

SentProgress ==
  {[current |-> stream[1][k].filesProcessed, total |-> stream[1][k].totalFiles] :
     k \in ProgressAt(1)}

C39_ProgressWasSent ==
  progress \in {[current |-> 0, total |-> 0], [current |-> 0, total |-> 1]}
                 \cup SentProgress

C39_ClientFollowsStream ==
  /\ C39_TerminalSetsHasIndex
  /\ C39_IsIndexingReset
  /\ C39_ProgressWasSent

====
